---- MODULE Spec2Model ----
(***************************************************************************)
(* Model of the training orchestrator (src/run/train.py, main) and of the  *)
(* top-3 artifact retention it drives (src/run/train.py lines 135-154,     *)
(* src/utils/plotting.py save_confusion_matrix / save_roc_curve).          *)
(*                                                                         *)
(* Accuracies are natural numbers counted in units of 1/Resolution of the  *)
(* fourth decimal, so that the "%.4f" formatting of a file name is a lossy *)
(* rounding and not the identity.                                          *)
(*                                                                         *)
(* The saliency functions (src/utils/utils.py generate_gradcam2,           *)
(* src/detect/detect_heat.py GradCAM) are modelled twice: what they        *)
(* compute from the captured tensors (SpecCam) and what they do to the     *)
(* hooks of the target layer (SpecProbe).                                  *)
(*                                                                         *)
(* SpecSteps follows one image site statement by statement, with calls     *)
(* that are cut short between writing the file and removing the losers.    *)
(***************************************************************************)
EXTENDS Integers, Sequences, FiniteSets, TLC

VARIABLES
    pc,               \* position of main: start, train, validate, append, viz, roc, saliency, log, ckpt, done, aborted
    run,              \* which launch of main this is (each launch gets a fresh timestamped output_dir)
    resume_from,      \* the resume_from argument of main
    epochs,           \* the epochs argument of main
    val_labels,       \* the label classes of the validation set
    start_epoch,      \* train.py:95/104
    epoch,            \* loop variable of train.py:109
    val_acc,          \* train.py:111
    best_val_acc,     \* train.py:96/105/143
    training_history, \* train.py:97/106, the val_accuracy list (the other three lists grow in lockstep)
    best_models,      \* train.py:98/148, sequence of <<val_acc, model_path>>
    checkpoint,       \* train.py:101/136, the checkpoint dict last loaded or built
    models_dir,       \* the .pth files of output_dir/models: set of [path, content]
    old_models,       \* the .pth file of the earlier launch that the user kept to resume from
    logs_dir,         \* the image files of output_dir/logs: set of [family, epoch, acc]
    training_log,     \* output_dir/logs/training_log.txt: sequence of 1-based epoch numbers
    executed,         \* history: epoch indices whose iteration has started, in order
    visualized,       \* history: epoch indices whose visualization block ran
    offered,          \* history: per family, the sequence of [score, name] offered
    saliency,         \* history: how the saliency call of this iteration ended (none, ok, shape_error)
    cam_input,        \* the activation and gradient tensors a saliency function is called on
    cam_output,       \* what the saliency function made of them
    hooks,            \* the hooks registered on the target layer: set of [kind, owner]
    probes,           \* the GradCAM objects made for the layer: sequence of [activations, gradients]
    passes,           \* the forward passes made through the layer so far
    calls,            \* the calls of generate_gradcam2 made on the layer so far
    paired,           \* the capture that ended last: who made it, how it ended, what it combined
    saving,           \* the plotting call in progress: where it stands, its saved_files, its removals
    interrupted       \* history: the plotting calls cut short since the last one that returned

camVars == <<cam_input, cam_output, hooks, probes, passes, calls, paired>>
stepVars == <<saving, interrupted>>

vars == <<pc, run, resume_from, epochs, val_labels, start_epoch, epoch, val_acc,
          best_val_acc, training_history, best_models, checkpoint, models_dir,
          old_models, logs_dir, training_log, executed, visualized, offered,
          saliency, camVars, stepVars>>

(***************************************************************************)
(* Bounds of the model and constants of the program.                       *)
(***************************************************************************)
MaxAcc == 4
Resolution == 3
MaxEpochs == 4
MaxOffers == 4
TopK == 3
VizEvery == 2

AccVals == 0..MaxAcc
Families == {"confusion_matrix", "roc_curve", "checkpoint"}
LabelSets == {{0, 1}, {1, 2}, {2}}

Min(a, b) == IF a < b THEN a ELSE b
Range(s) == {s[i] : i \in 1..Len(s)}

(***************************************************************************)
(* Paths.  A checkpoint path is <<run, 1-based epoch, formatted accuracy>>; *)
(* the run component stands for the timestamped output_dir of a launch.    *)
(* NoPath is resume_from=None, MissingPath a path with no file behind it.  *)
(***************************************************************************)
NoPath == <<0, 0, 0>>
MissingPath == <<0, 1, 0>>
NoCheckpoint == [epoch |-> -1, best_val_acc |-> 0, training_history |-> <<>>]

\* f"{acc:.4f}" read back by float(): the accuracy rounded to the fourth decimal.
Fmt4(acc) == (2 * acc + Resolution) \div (2 * Resolution)

(***************************************************************************)
(* sorted(..., key=..., reverse=True) on a sequence of <<key, item>>: a    *)
(* stable descending sort (equal keys keep their input order).             *)
(***************************************************************************)
InsertDesc(x, t) ==
    LET n == Cardinality({i \in 1..Len(t) : t[i][1] > x[1]})
    IN  SubSeq(t, 1, n) \o <<x>> \o SubSeq(t, n + 1, Len(t))

RECURSIVE SortedDesc(_)
SortedDesc(s) ==
    IF s = <<>> THEN <<>> ELSE InsertDesc(Head(s), SortedDesc(Tail(s)))

\* faulty variant of Beyond: the slice starts one entry too late, s[k+1:]
BeyondOffByOne(s, k) == SubSeq(s, k + 2, Len(s))

\* s[:k] and s[k:]
Top(s, k) == SubSeq(s, 1, Min(k, Len(s)))
Beyond(s, k) == SubSeq(s, k + 1, Len(s))

(***************************************************************************)
(* Image families of output_dir/logs (plotting.py).                        *)
(***************************************************************************)
\* plotting.py:76 and :160, the epoch-named file of a family
ImageName(family, ep, acc) == [family |-> family, epoch |-> ep, acc |-> Fmt4(acc)]

\* plotting.py:83, float(x.split('_acc_')[-1].split('.png')[0])
FileScore(f) == f.acc

\* faulty variant of FamilyFiles: the listing is not filtered by the prefix of the family
FamilyFilesAnyPrefix(dir, family) == dir

\* [f for f in os.listdir(output_dir) if f.startswith(family + "_epoch_")]
FamilyFiles(dir, family) == {f \in dir : f.family = family}

\* os.listdir returns the entries in arbitrary order: every order is possible
RECURSIVE ListDir(_)
ListDir(S) ==
    IF S = {} THEN {<<>>} ELSE UNION {{<<f>> \o l : l \in ListDir(S \ {f})} : f \in S}

\* plotting.py:81-87: sort the listing by score, remove everything past the third
RemoveBeyondTop3(dir, listing) ==
    LET keyed == [i \in 1..Len(listing) |-> <<FileScore(listing[i]), listing[i]>>]
        saved_files == SortedDesc(keyed)
        doomed == Beyond(saved_files, TopK)
    IN  dir \ {doomed[i][2] : i \in 1..Len(doomed)}

\* plotting.py:76-87 / 160-167: savefig, then the retention of the family;
\* the set of directory contents the call can leave behind
SaveImage(dir, family, ep, acc) ==
    LET written == dir \cup {ImageName(family, ep, acc)}
    IN  {RemoveBeyondTop3(written, l) : l \in ListDir(FamilyFiles(written, family))}

SaveConfusionMatrix(dir, ep, acc) == SaveImage(dir, "confusion_matrix", ep, acc)

\* faulty variant of SavedFiles: reverse=True is left out, the lowest score comes first
SavedFilesAscending(listing) ==
    LET keyed == [i \in 1..Len(listing) |-> <<0 - FileScore(listing[i]), listing[i]>>]
        sorted == SortedDesc(keyed)
    IN  [i \in 1..Len(sorted) |-> sorted[i][2]]

\* plotting.py:81-85 / 165, saved_files: the listing sorted by score, highest first
SavedFiles(listing) ==
    LET keyed == [i \in 1..Len(listing) |-> <<FileScore(listing[i]), listing[i]>>]
        sorted == SortedDesc(keyed)
    IN  [i \in 1..Len(sorted) |-> sorted[i][2]]

\* plotting.py:81-85 / 165: the files of a listing that come after the third, in
\* the order the loop visits them
Doomed(listing) ==
    LET keyed == [i \in 1..Len(listing) |-> <<FileScore(listing[i]), listing[i]>>]
        beyond == Beyond(SortedDesc(keyed), TopK)
    IN  [i \in 1..Len(beyond) |-> beyond[i][2]]

\* plotting.py:85-87 / 165-167, os.remove of each file in turn: a file that is not
\* there makes os.remove raise FileNotFoundError, which ends the loop and the call
RECURSIVE OsRemoveEach(_, _)
OsRemoveEach(dir, files) ==
    IF files = <<>> THEN [raised |-> FALSE, dir |-> dir]
    ELSE IF Head(files) \notin dir THEN [raised |-> TRUE, dir |-> dir]
    ELSE OsRemoveEach(dir \ {Head(files)}, Tail(files))

\* plotting.py:76-87 / 160-167 when some of the files selected for removal are
\* deleted by someone else between the listing and their os.remove
SaveImageRaced(dir, family, ep, acc) ==
    LET written == dir \cup {ImageName(family, ep, acc)}
    IN  UNION {{OsRemoveEach(written \ gone, Doomed(l)) :
                  gone \in (SUBSET Range(Doomed(l))) \ {{}}} :
               l \in ListDir(FamilyFiles(written, family))}

\* plotting.py:108, np.where(labels > 1, 1, 0)
Binarize(labels) == {IF l > 1 THEN 1 ELSE 0 : l \in labels}

\* plotting.py:116-118 then 160-167
SaveRocCurve(dir, labels, ep, acc) ==
    IF Cardinality(Binarize(labels)) < 2 THEN {dir}
    ELSE SaveImage(dir, "roc_curve", ep, acc)

SaveRocCurveRaced(dir, labels, ep, acc) ==
    IF Cardinality(Binarize(labels)) < 2 THEN {}
    ELSE SaveImageRaced(dir, "roc_curve", ep, acc)

(***************************************************************************)
(* Checkpoints (train.py:135-154).                                         *)
(***************************************************************************)
\* faulty variant of Improved: an equal accuracy counts as an improvement
ImprovedOrEqual(v, b) == v >= b

\* train.py:135
Improved(v, b) == v > b

\* train.py:136-142
CheckpointDict(ep, best, hist) ==
    [epoch |-> ep, best_val_acc |-> best, training_history |-> hist]

\* train.py:144-145
ModelPath(r, ep, acc) == <<r, ep + 1, Fmt4(acc)>>

\* torch.save(checkpoint, model_path) / torch.load / os.path.exists
TorchSave(dir, path, content) ==
    {f \in dir : f.path # path} \cup {[path |-> path, content |-> content]}
PathExists(dir, path) == \E f \in dir : f.path = path
\* faulty variant of TorchLoad: a missing file is read as an empty checkpoint
TorchLoadLenient(dir, path) ==
    IF PathExists(dir, path)
    THEN [raised |-> FALSE, content |-> (CHOOSE f \in dir : f.path = path).content]
    ELSE [raised |-> FALSE, content |-> NoCheckpoint]

\* torch.load(resume_from): raises FileNotFoundError when there is no such file
TorchLoad(dir, path) ==
    IF PathExists(dir, path)
    THEN [raised |-> FALSE, content |-> (CHOOSE f \in dir : f.path = path).content]
    ELSE [raised |-> TRUE, content |-> NoCheckpoint]

\* faulty variant of OfferBestModels: the slice keeps the last three, [-3:]
OfferBestModelsLastThree(bm, acc, path) ==
    LET sorted == SortedDesc(Append(bm, <<acc, path>>))
    IN  SubSeq(sorted, Len(sorted) - Min(TopK, Len(sorted)) + 1, Len(sorted))

\* train.py:147-148
OfferBestModels(bm, acc, path) == Top(SortedDesc(Append(bm, <<acc, path>>)), TopK)

\* train.py:151-154
RemoveBeyondTopModels(dir, bm) ==
    LET doomed == Beyond(bm, TopK)
    IN  {f \in dir : f.path \notin {doomed[i][2] : i \in 1..Len(doomed)}}

\* train.py:135-154 as a whole: the values of the locals and of output_dir/models
\* after the checkpoint decision of one epoch
CheckpointStep(r, ep, acc, best, hist, bm, dir, ck) ==
    IF Improved(acc, best) THEN
        LET new_ck == CheckpointDict(ep, best, hist)
            model_path == ModelPath(r, ep, acc)
            new_bm == OfferBestModels(bm, acc, model_path)
        IN  [checkpoint |-> new_ck,
             best_val_acc |-> acc,
             best_models |-> new_bm,
             models_dir |-> RemoveBeyondTopModels(TorchSave(dir, model_path, new_ck), new_bm)]
    ELSE
        [checkpoint |-> ck,
         best_val_acc |-> best,
         best_models |-> bm,
         models_dir |-> RemoveBeyondTopModels(dir, bm)]

\* faulty variant of ResumeState: the loop starts again at the saved epoch
ResumeStateSameEpoch(ck) ==
    [start_epoch |-> ck.epoch, best_val_acc |-> ck.best_val_acc,
     training_history |-> ck.training_history]

\* train.py:104-106
ResumeState(ck) ==
    [start_epoch |-> ck.epoch + 1, best_val_acc |-> ck.best_val_acc,
     training_history |-> ck.training_history]

\* faulty variant of Cadence: the 0-based epoch index is tested
CadenceZeroBased(ep) == ep % VizEvery = 0

\* train.py:120
Cadence(ep) == (ep + 1) % VizEvery = 0

\* faulty variant of After: the log line is appended before the visualization block
AfterLogFirst(phase, viz) ==
    CASE phase = "train" -> "validate"
      [] phase = "validate" -> "append"
      [] phase = "append" -> "log"
      [] phase = "log" -> "viz"
      [] phase = "viz" -> IF viz THEN "roc" ELSE "ckpt"
      [] phase = "roc" -> "saliency"
      [] phase = "saliency" -> "ckpt"

\* faulty variant of After: the iteration goes from the saliency maps straight to
\* the checkpoint decision
AfterSaliencySkipsLog(phase, viz) ==
    CASE phase = "train" -> "validate"
      [] phase = "validate" -> "append"
      [] phase = "append" -> "viz"
      [] phase = "viz" -> IF viz THEN "roc" ELSE "log"
      [] phase = "roc" -> "saliency"
      [] phase = "saliency" -> "ckpt"
      [] phase = "log" -> "ckpt"

\* train.py:109-135: the statement that follows a statement of the loop body; viz
\* is the test of line 120
After(phase, viz) ==
    CASE phase = "train" -> "validate"
      [] phase = "validate" -> "append"
      [] phase = "append" -> "viz"
      [] phase = "viz" -> IF viz THEN "roc" ELSE "log"
      [] phase = "roc" -> "saliency"
      [] phase = "saliency" -> "log"
      [] phase = "log" -> "ckpt"

\* how a saliency computation of the visualization block can end
SaliencyOutcomes == {"ok", "shape_error"}

\* train.py:128, save_random_predictions of utils.gradcam: a shape failure of the
\* saliency computation ends that visualization call and is not passed on to main
SaveRandomPredictions(outcome) == [raised |-> FALSE, saliency |-> outcome]

\* faulty variant of LoopAt: the loop gives up one epoch early
LoopAtOneShort(ep, n) == IF ep < n - 1 THEN "train" ELSE "done"

\* train.py:109, range(start_epoch, epochs): where main goes with the loop variable at ep
LoopAt(ep, n) == IF ep < n THEN "train" ELSE "done"

(***************************************************************************)
(* History bookkeeping of the offers made to each family.                  *)
(***************************************************************************)
NoOffers == [f \in Families |-> <<>>]
Record(off, family, score, name) ==
    [off EXCEPT ![family] = Append(@, [score |-> score, name |-> name])]

\* the ROC offer is made only when save_roc_curve gets as far as savefig
RecordRoc(off, labels, ep, acc) ==
    IF Cardinality(Binarize(labels)) < 2 THEN off
    ELSE Record(off, "roc_curve", acc, ImageName("roc_curve", ep, acc))

\* the checkpoint offer is made only when train.py:135 lets the epoch save
RecordCheckpoint(off, r, ep, acc, best) ==
    IF acc > best THEN Record(off, "checkpoint", acc, ModelPath(r, ep, acc)) ELSE off

\* no saliency function has been called, nothing is attached to the layer
NoTensors == [act |-> [rank |-> 0, data |-> <<>>], grad |-> [rank |-> 0, data |-> <<>>]]
NoHeatmap == [raised |-> "", grid |-> <<>>, heatmap |-> [den |-> 0, cells |-> <<>>], pixels |-> <<>>]
NoCapture == [by |-> <<"", 0>>, raised |-> "", activation |-> 0, gradient |-> 0]
CamIdle ==
    /\ cam_input = NoTensors
    /\ cam_output = NoHeatmap
    /\ hooks = {}
    /\ probes = <<>>
    /\ passes = 0
    /\ calls = 0
    /\ paired = NoCapture

\* no plotting call is in progress
NoSave == [at |-> "idle", saved_files |-> <<>>, removed |-> 0]
StepIdle == saving = NoSave /\ interrupted = 0

(***************************************************************************)
(* main (train.py:67-154).                                                 *)
(***************************************************************************)
Init ==
    /\ pc = "start"
    /\ run = 1
    /\ resume_from = NoPath
    /\ epochs = 0
    /\ val_labels = {}
    /\ start_epoch = 0
    /\ epoch = 0
    /\ val_acc = 0
    /\ best_val_acc = 0
    /\ training_history = <<>>
    /\ best_models = <<>>
    /\ checkpoint = NoCheckpoint
    /\ models_dir = {}
    /\ old_models = {}
    /\ logs_dir = {}
    /\ training_log = <<>>
    /\ executed = <<>>
    /\ visualized = {}
    /\ offered = NoOffers
    /\ saliency = "none"
    /\ CamIdle
    /\ StepIdle

\* train.py:67-107: the arguments, the fresh state of lines 95-98, the resume of 100-107
Launch(rf, n, labels) ==
    /\ pc = "start"
    /\ resume_from' = rf
    /\ epochs' = n
    /\ val_labels' = labels
    /\ best_models' = <<>>
    /\ IF rf = NoPath THEN
          /\ start_epoch' = 0
          /\ best_val_acc' = 0
          /\ training_history' = <<>>
          /\ checkpoint' = checkpoint
          /\ epoch' = 0
          /\ pc' = LoopAt(0, n)
       ELSE IF TorchLoad(old_models, rf).raised THEN
          /\ start_epoch' = 0
          /\ best_val_acc' = 0
          /\ training_history' = <<>>
          /\ checkpoint' = checkpoint
          /\ epoch' = 0
          /\ pc' = "aborted"
       ELSE
          LET ck == TorchLoad(old_models, rf).content
              st == ResumeState(ck)
          IN  /\ checkpoint' = ck
              /\ start_epoch' = st.start_epoch
              /\ best_val_acc' = st.best_val_acc
              /\ training_history' = st.training_history
              /\ epoch' = st.start_epoch
              /\ pc' = LoopAt(st.start_epoch, n)
    /\ UNCHANGED <<camVars, stepVars, saliency, run, val_acc, models_dir, old_models, logs_dir, training_log,
                   executed, visualized, offered>>

\* train.py:110
TrainOneEpoch ==
    /\ pc = "train"
    /\ executed' = Append(executed, epoch)
    /\ pc' = After("train", Cadence(epoch))
    /\ UNCHANGED <<camVars, stepVars, saliency, run, old_models, resume_from, epochs, val_labels, start_epoch, epoch, val_acc,
                   best_val_acc, training_history, best_models, checkpoint,
                   models_dir, logs_dir, training_log, visualized, offered>>

\* train.py:111
Validate(acc) ==
    /\ pc = "validate"
    /\ val_acc' = acc
    /\ pc' = After("validate", Cadence(epoch))
    /\ UNCHANGED <<camVars, stepVars, saliency, run, old_models, resume_from, epochs, val_labels, start_epoch, epoch,
                   best_val_acc, training_history, best_models, checkpoint,
                   models_dir, logs_dir, training_log, executed, visualized, offered>>

\* train.py:113-118
AppendHistory ==
    /\ pc = "append"
    /\ training_history' = Append(training_history, val_acc)
    /\ pc' = After("append", Cadence(epoch))
    /\ UNCHANGED <<camVars, stepVars, saliency, run, old_models, resume_from, epochs, val_labels, start_epoch, epoch, val_acc,
                   best_val_acc, best_models, checkpoint, models_dir, logs_dir,
                   training_log, executed, visualized, offered>>

\* train.py:120-123: on a cadence epoch the report is printed and the confusion
\* matrix saved
Visualize ==
    /\ pc = "viz"
    /\ IF Cadence(epoch) THEN
          /\ \E d \in SaveConfusionMatrix(logs_dir, epoch, val_acc) : logs_dir' = d
          /\ visualized' = visualized \cup {epoch}
          /\ offered' = Record(offered, "confusion_matrix", val_acc,
                               ImageName("confusion_matrix", epoch, val_acc))
       ELSE UNCHANGED <<logs_dir, visualized, offered>>
    /\ pc' = After("viz", Cadence(epoch))
    /\ UNCHANGED <<camVars, stepVars, saliency, run, old_models, resume_from, epochs, val_labels, start_epoch, epoch, val_acc,
                   best_val_acc, training_history, best_models, checkpoint,
                   models_dir, training_log, executed>>

\* train.py:124, save_roc_curve returning
RocCurve ==
    /\ pc = "roc"
    /\ \E d \in SaveRocCurve(logs_dir, val_labels, epoch, val_acc) : logs_dir' = d
    /\ offered' = RecordRoc(offered, val_labels, epoch, val_acc)
    /\ pc' = After("roc", TRUE)
    /\ UNCHANGED <<camVars, stepVars, saliency, run, old_models, resume_from, epochs, val_labels, start_epoch, epoch, val_acc,
                   best_val_acc, training_history, best_models, checkpoint,
                   models_dir, training_log, executed, visualized>>

\* train.py:124: positive_risk[mask] (plotting.py:113) raises on the Python list
\* val_preds that main passes, before the labels are looked at, and main ends there
RocCurveRaises ==
    /\ pc = "roc"
    /\ pc' = "aborted"
    /\ UNCHANGED <<camVars, stepVars, saliency, run, old_models, resume_from, epochs, val_labels, start_epoch, epoch, val_acc,
                   best_val_acc, training_history, best_models, checkpoint,
                   models_dir, logs_dir, training_log, executed, visualized, offered>>

\* train.py:126-128: the saliency maps of a few validation images
RandomPredictions(outcome) ==
    /\ pc = "saliency"
    /\ LET call == SaveRandomPredictions(outcome)
       IN  /\ saliency' = call.saliency
           /\ pc' = IF call.raised THEN "aborted" ELSE After("saliency", TRUE)
    /\ UNCHANGED <<camVars, stepVars, run, old_models, resume_from, epochs, val_labels, start_epoch, epoch, val_acc,
                   best_val_acc, training_history, best_models, checkpoint,
                   models_dir, logs_dir, training_log, executed, visualized, offered>>

\* train.py:130-133
WriteLog ==
    /\ pc = "log"
    /\ training_log' = Append(training_log, epoch + 1)
    /\ pc' = After("log", Cadence(epoch))
    /\ UNCHANGED <<camVars, stepVars, saliency, run, old_models, resume_from, epochs, val_labels, start_epoch, epoch, val_acc,
                   best_val_acc, training_history, best_models, checkpoint,
                   models_dir, logs_dir, executed, visualized, offered>>

\* train.py:135-154, then the loop variable moves on (train.py:109)
Checkpoint ==
    /\ pc = "ckpt"
    /\ LET after == CheckpointStep(run, epoch, val_acc, best_val_acc, training_history,
                                   best_models, models_dir, checkpoint)
       IN  /\ checkpoint' = after.checkpoint
           /\ best_val_acc' = after.best_val_acc
           /\ best_models' = after.best_models
           /\ models_dir' = after.models_dir
    /\ offered' = RecordCheckpoint(offered, run, epoch, val_acc, best_val_acc)
    /\ epoch' = epoch + 1
    /\ pc' = LoopAt(epoch + 1, epochs)
    /\ saliency' = "none"
    /\ UNCHANGED <<camVars, stepVars, run, old_models, resume_from, epochs, val_labels, start_epoch, val_acc,
                   training_history, logs_dir, training_log, executed, visualized>>

\* main is started once more: create_output_dirs (train.py:25-32, 71) makes a new,
\* empty output_dir; of the files of the earlier launch only the one the user
\* may name as resume_from is followed further
Relaunch(kept) ==
    /\ pc \in {"done", "aborted"}
    /\ run = 1
    /\ old_models' = kept
    /\ models_dir' = {}
    /\ run' = run + 1
    /\ pc' = "start"
    /\ resume_from' = NoPath
    /\ epochs' = 0
    /\ val_labels' = {}
    /\ start_epoch' = 0
    /\ epoch' = 0
    /\ val_acc' = 0
    /\ best_val_acc' = 0
    /\ training_history' = <<>>
    /\ best_models' = <<>>
    /\ checkpoint' = NoCheckpoint
    /\ logs_dir' = {}
    /\ training_log' = <<>>
    /\ executed' = <<>>
    /\ visualized' = {}
    /\ offered' = NoOffers
    /\ saliency' = "none"
    /\ UNCHANGED <<camVars, stepVars>>

\* the first launch starts fresh or names a file that is not there; the second
\* one names the checkpoint kept from the first, or a file that is not there
ResumeChoices ==
    IF run = 1 THEN {NoPath, MissingPath}
    ELSE {MissingPath} \cup {f.path : f \in old_models}

Next ==
    \/ \E rf \in ResumeChoices, n \in 0..MaxEpochs, labels \in LabelSets :
          Launch(rf, n, labels)
    \/ TrainOneEpoch
    \/ \E acc \in AccVals : Validate(acc)
    \/ AppendHistory
    \/ Visualize
    \/ RocCurve
    \/ RocCurveRaises
    \/ \E outcome \in SaliencyOutcomes : RandomPredictions(outcome)
    \/ WriteLog
    \/ Checkpoint
    \/ \E f \in models_dir : Relaunch({f})
    \/ Relaunch({})

Spec == Init /\ [][Next]_vars

(***************************************************************************)
(* The retention sites on their own.  One site is driven by a sequence of  *)
(* calls, each with an arbitrary validation accuracy and with the epoch    *)
(* numbers main passes: the cadence epochs for the two image sites         *)
(* (train.py:123-124), every epoch for the checkpoint site (135-154).      *)
(* pc names the site that is driven.                                       *)
(***************************************************************************)
\* an image of another family that an earlier call left in the logs directory
ForeignFile(site) ==
    ImageName(IF site = "confusion_matrix" THEN "roc_curve" ELSE "confusion_matrix",
              VizEvery - 1, 0)

InitOffers ==
    /\ pc \in Families
    /\ run = 1
    /\ resume_from = NoPath
    /\ epochs = 0
    /\ val_labels \in LabelSets
    /\ start_epoch = 0
    /\ epoch = IF pc = "checkpoint" THEN 0 ELSE VizEvery - 1
    /\ val_acc = 0
    /\ best_val_acc = 0
    /\ training_history = <<>>
    /\ best_models = <<>>
    /\ checkpoint = NoCheckpoint
    /\ models_dir = {}
    /\ old_models = {}
    /\ logs_dir = {}
    /\ training_log = <<>>
    /\ executed = <<>>
    /\ visualized = {}
    /\ offered = NoOffers
    /\ saliency = "none"
    /\ CamIdle
    /\ StepIdle

\* a site is driven in a logs directory that holds an image of another family
InitShared ==
    /\ pc \in Families
    /\ run = 1
    /\ resume_from = NoPath
    /\ epochs = 0
    /\ val_labels \in LabelSets
    /\ start_epoch = 0
    /\ epoch = IF pc = "checkpoint" THEN 0 ELSE VizEvery - 1
    /\ val_acc = 0
    /\ best_val_acc = 0
    /\ training_history = <<>>
    /\ best_models = <<>>
    /\ checkpoint = NoCheckpoint
    /\ models_dir = {}
    /\ old_models = {}
    /\ logs_dir = {ForeignFile(pc)}
    /\ training_log = <<>>
    /\ executed = <<>>
    /\ visualized = {}
    /\ offered = Record(NoOffers, ForeignFile(pc).family, 0, ForeignFile(pc))
    /\ saliency = "none"
    /\ CamIdle
    /\ StepIdle

\* train.py:123
OfferConfusionMatrix(acc) ==
    /\ pc = "confusion_matrix"
    /\ Len(executed) < MaxOffers
    /\ val_acc' = acc
    /\ \E d \in SaveConfusionMatrix(logs_dir, epoch, acc) : logs_dir' = d
    /\ offered' = Record(offered, "confusion_matrix", acc,
                         ImageName("confusion_matrix", epoch, acc))
    /\ executed' = Append(executed, epoch)
    /\ epoch' = epoch + VizEvery
    /\ UNCHANGED <<camVars, stepVars, saliency, pc, run, old_models, resume_from, epochs, val_labels, start_epoch,
                   best_val_acc, training_history, best_models, checkpoint,
                   models_dir, training_log, visualized>>

\* train.py:124
OfferRocCurve(acc) ==
    /\ pc = "roc_curve"
    /\ Len(executed) < MaxOffers
    /\ val_acc' = acc
    /\ \E d \in SaveRocCurve(logs_dir, val_labels, epoch, acc) : logs_dir' = d
    /\ offered' = RecordRoc(offered, val_labels, epoch, acc)
    /\ executed' = Append(executed, epoch)
    /\ epoch' = epoch + VizEvery
    /\ UNCHANGED <<camVars, stepVars, saliency, pc, run, old_models, resume_from, epochs, val_labels, start_epoch,
                   best_val_acc, training_history, best_models, checkpoint,
                   models_dir, training_log, visualized>>

\* train.py:135-154
OfferCheckpoint(acc) ==
    /\ pc = "checkpoint"
    /\ Len(executed) < MaxOffers
    /\ val_acc' = acc
    /\ LET after == CheckpointStep(run, epoch, acc, best_val_acc, training_history,
                                   best_models, models_dir, checkpoint)
       IN  /\ checkpoint' = after.checkpoint
           /\ best_val_acc' = after.best_val_acc
           /\ best_models' = after.best_models
           /\ models_dir' = after.models_dir
    /\ offered' = RecordCheckpoint(offered, run, epoch, acc, best_val_acc)
    /\ executed' = Append(executed, epoch)
    /\ epoch' = epoch + 1
    /\ UNCHANGED <<camVars, stepVars, saliency, pc, run, old_models, resume_from, epochs, val_labels, start_epoch,
                   training_history, logs_dir, training_log, visualized>>

\* train.py:123 when a file that save_confusion_matrix is about to remove is gone:
\* the FileNotFoundError leaves the call, and nothing in main catches it
OfferConfusionMatrixRaced(acc) ==
    /\ pc = "confusion_matrix"
    /\ Len(executed) < MaxOffers
    /\ val_acc' = acc
    /\ \E call \in SaveImageRaced(logs_dir, "confusion_matrix", epoch, acc) :
          /\ logs_dir' = call.dir
          /\ pc' = IF call.raised THEN "aborted" ELSE pc
    /\ offered' = Record(offered, "confusion_matrix", acc,
                         ImageName("confusion_matrix", epoch, acc))
    /\ executed' = Append(executed, epoch)
    /\ epoch' = epoch + VizEvery
    /\ UNCHANGED <<camVars, stepVars, saliency, run, old_models, resume_from, epochs, val_labels, start_epoch,
                   best_val_acc, training_history, best_models, checkpoint,
                   models_dir, training_log, visualized>>

\* train.py:124, the same for save_roc_curve
OfferRocCurveRaced(acc) ==
    /\ pc = "roc_curve"
    /\ Len(executed) < MaxOffers
    /\ val_acc' = acc
    /\ \E call \in SaveRocCurveRaced(logs_dir, val_labels, epoch, acc) :
          /\ logs_dir' = call.dir
          /\ pc' = IF call.raised THEN "aborted" ELSE pc
    /\ offered' = RecordRoc(offered, val_labels, epoch, acc)
    /\ executed' = Append(executed, epoch)
    /\ epoch' = epoch + VizEvery
    /\ UNCHANGED <<camVars, stepVars, saliency, run, old_models, resume_from, epochs, val_labels, start_epoch,
                   best_val_acc, training_history, best_models, checkpoint,
                   models_dir, training_log, visualized>>

NextOffers ==
    \/ \E acc \in AccVals : OfferConfusionMatrix(acc)
    \/ \E acc \in AccVals : OfferRocCurve(acc)
    \/ \E acc \in AccVals : OfferCheckpoint(acc)

SpecOffers == InitOffers /\ [][NextOffers]_vars

SpecShared == InitShared /\ [][NextOffers]_vars

\* the sites driven while someone else deletes files of the logs directory
NextRaced ==
    \/ NextOffers
    \/ \E acc \in AccVals : OfferConfusionMatrixRaced(acc)
    \/ \E acc \in AccVals : OfferRocCurveRaced(acc)

SpecRaced == InitOffers /\ [][NextRaced]_vars

(***************************************************************************)
(* The image sites statement by statement.  A call of save_confusion_matrix *)
(* or save_roc_curve writes its file, lists and sorts the family, removes  *)
(* the files past the third one by one and returns.  Neither function has  *)
(* a try or a finally: a call that is cut short (the process is            *)
(* interrupted or killed) stops where it stands and undoes nothing.  The   *)
(* next call is made on the same directory.                                *)
(***************************************************************************)
MaxCalls == 5
ImageFamilies == {"confusion_matrix", "roc_curve"}

InitSteps == InitOffers /\ pc \in ImageFamilies

\* plotting.py:76-78 / 116-118 and 160-162: savefig of the epoch-named file; a
\* save_roc_curve call on labels of one binarized class returns before that
Savefig(acc) ==
    /\ pc \in ImageFamilies
    /\ saving.at = "idle"
    /\ epoch < VizEvery * MaxCalls
    /\ IF pc = "roc_curve" /\ Cardinality(Binarize(val_labels)) < 2 THEN
          /\ epoch' = epoch + VizEvery
          /\ UNCHANGED <<logs_dir, saving>>
       ELSE
          /\ logs_dir' = logs_dir \cup {ImageName(pc, epoch, acc)}
          /\ saving' = [at |-> "listdir", saved_files |-> <<>>, removed |-> 0]
          /\ epoch' = epoch
    /\ UNCHANGED <<camVars, interrupted, saliency, pc, run, old_models, resume_from, epochs,
                   val_labels, start_epoch, val_acc, best_val_acc, training_history,
                   best_models, checkpoint, models_dir, training_log, executed, visualized,
                   offered>>

\* plotting.py:81-85 / 165: the family is listed and sorted into saved_files
SortListing ==
    /\ saving.at = "listdir"
    /\ \E l \in ListDir(FamilyFiles(logs_dir, pc)) :
          saving' = [at |-> "remove", saved_files |-> SavedFiles(l), removed |-> 0]
    /\ UNCHANGED <<camVars, interrupted, saliency, pc, run, old_models, resume_from, epochs,
                   val_labels, start_epoch, epoch, val_acc, best_val_acc, training_history,
                   best_models, checkpoint, models_dir, logs_dir, training_log, executed,
                   visualized, offered>>

\* plotting.py:86-87 / 166-167: one turn of the loop over saved_files[3:]
RemoveOne ==
    /\ saving.at = "remove"
    /\ TopK + saving.removed < Len(saving.saved_files)
    /\ logs_dir' = logs_dir \ {saving.saved_files[TopK + saving.removed + 1]}
    /\ saving' = [saving EXCEPT !.removed = @ + 1]
    /\ UNCHANGED <<camVars, interrupted, saliency, pc, run, old_models, resume_from, epochs,
                   val_labels, start_epoch, epoch, val_acc, best_val_acc, training_history,
                   best_models, checkpoint, models_dir, training_log, executed, visualized,
                   offered>>

\* plotting.py:87 / 167: the loop is over and the call returns; main comes back
\* with the next cadence epoch (train.py:120)
ReturnFromSave ==
    /\ saving.at = "remove"
    /\ TopK + saving.removed >= Len(saving.saved_files)
    /\ saving' = NoSave
    /\ interrupted' = 0
    /\ epoch' = epoch + VizEvery
    /\ UNCHANGED <<camVars, saliency, pc, run, old_models, resume_from, epochs, val_labels,
                   start_epoch, val_acc, best_val_acc, training_history, best_models,
                   checkpoint, models_dir, logs_dir, training_log, executed, visualized,
                   offered>>

\* plotting.py:77-87 / 161-167: the call is cut short after savefig; its locals
\* are lost, the files stay as they are
Interrupt ==
    /\ saving.at \in {"listdir", "remove"}
    /\ saving' = NoSave
    /\ interrupted' = interrupted + 1
    /\ epoch' = epoch + VizEvery
    /\ UNCHANGED <<camVars, saliency, pc, run, old_models, resume_from, epochs, val_labels,
                   start_epoch, val_acc, best_val_acc, training_history, best_models,
                   checkpoint, models_dir, logs_dir, training_log, executed, visualized,
                   offered>>

NextSteps ==
    \/ \E acc \in AccVals : Savefig(acc)
    \/ SortListing
    \/ RemoveOne
    \/ ReturnFromSave
    \/ Interrupt

SpecSteps == InitSteps /\ [][NextSteps]_vars

(***************************************************************************)
(* The saliency functions: generate_gradcam2 (src/utils/utils.py) and      *)
(* GradCAM.generate_heatmap (src/detect/detect_heat.py).  A tensor is its  *)
(* rank and its entries for batch element 0 (every caller passes one       *)
(* image): data[c][i][j] for rank 4, data[t][d] for rank 3.  The entries   *)
(* are integers; a mean is carried as its sum, a quotient as numerator and *)
(* denominator, so that 0/0, the not-a-number of the floating-point        *)
(* division, is a value of the model.                                      *)
(***************************************************************************)
MaxTokens == 5
Upscale == 2
CellVals == {-1, 0, 1}
SignVals == {-1, 1}
SpatialShapes == {<<1, 2, 2>>, <<2, 1, 2>>}
NanCasts == {0, 255}

\* utils.py:1-2: the names the module utils.utils imports; torch and F are not
\* among them
UtilsNames == {"np", "cv2"}

\* detect_heat.py:1-15
DetectNames == {"os", "argparse", "cv2", "YOLO", "heatmap", "solutions", "Heatmap", "yaml",
                "tqdm", "datetime", "random", "np", "torch", "models", "transforms", "Function"}

\* the tensors a rank-4 layer of one of the shapes <<C, H, W>> can give
SpatialInputs(shapes) ==
    UNION {{[act |-> [rank |-> 4, data |-> a], grad |-> [rank |-> 4, data |-> g]] :
              a \in [1..s[1] -> [1..s[2] -> [1..s[3] -> CellVals]]],
              g \in [1..s[1] -> [1..s[2] -> [1..s[3] -> CellVals]]]} : s \in shapes}

\* the tensors a rank-3 layer of up to n tokens can give
TokenInputs(n) ==
    UNION {{[act |-> [rank |-> 3, data |-> a], grad |-> [rank |-> 3, data |-> g]] :
              a \in [1..t -> [1..1 -> CellVals]],
              g \in [1..t -> [1..1 -> SignVals]]} : t \in 1..n}

\* the output of a layer that is neither a feature map nor a token sequence
FlatInputs == {[act |-> [rank |-> 2, data |-> <<>>], grad |-> [rank |-> 2, data |-> <<>>]]}

RECURSIVE SumTo(_, _)
SumTo(f, n) == IF n = 0 THEN 0 ELSE f[n] + SumTo(f, n - 1)

Cells(grid) == {grid[i][j] : i \in 1..Len(grid), j \in 1..Len(grid[1])}
MaxOf(S) == CHOOSE x \in S : \A y \in S : y <= x
MinOf(S) == CHOOSE x \in S : \A y \in S : y >= x

\* utils.py:45, detect_heat.py:73: the gradient of each channel averaged over the
\* positions (the sum; the division by H*W is left to the normalization)
PooledSpatial(grad) ==
    [c \in 1..Len(grad) |-> SumTo([i \in 1..Len(grad[c]) |-> SumTo(grad[c][i], Len(grad[c][i]))],
                                  Len(grad[c]))]

\* utils.py:46-48, detect_heat.py:74: each channel scaled by its pooled gradient,
\* the channels combined position by position
WeightedSpatial(act, pooled) ==
    [i \in 1..Len(act[1]) |-> [j \in 1..Len(act[1][1]) |->
        SumTo([c \in 1..Len(act) |-> pooled[c] * act[c][i][j]], Len(act))]]

\* utils.py:56-64: the gradient of each embedding coordinate averaged over the
\* tokens, each token scored by its activation weighted with it
TokenScores(act, grad) ==
    [t \in 1..Len(act) |->
        SumTo([d \in 1..Len(act[t]) |->
                 act[t][d] * SumTo([u \in 1..Len(grad) |-> grad[u][d]], Len(grad))],
              Len(act[t]))]

\* utils.py:67, int(np.sqrt(n))
IntSqrt(n) == CHOOSE g \in 0..n : g * g <= n /\ (g + 1) * (g + 1) > n

\* utils.py:68, Tensor.view: the scores laid out row by row
View(scores, g) == [i \in 1..g |-> [j \in 1..g |-> scores[(i - 1) * g + j]]]

\* utils.py:74, detect_heat.py:75
Relu(grid) ==
    [i \in 1..Len(grid) |-> [j \in 1..Len(grid[i]) |->
        IF grid[i][j] < 0 THEN 0 ELSE grid[i][j]]]

\* cv2.resize along one axis by the factor k, bilinear (its default); the values
\* come out multiplied by 2k
Stretch(row, k) ==
    [x \in 1..(k * Len(row)) |->
        LET pos == 2 * (x - 1) + 1 - k
        IN  IF pos <= 0 THEN 2 * k * row[1]
            ELSE IF pos >= 2 * k * (Len(row) - 1) THEN 2 * k * row[Len(row)]
            ELSE (2 * k - (pos % (2 * k))) * row[(pos \div (2 * k)) + 1]
                 + (pos % (2 * k)) * row[(pos \div (2 * k)) + 2]]

\* utils.py:78, detect_heat.py:76: cv2.resize by the factors fr (rows) and fc
\* (columns); the values come out multiplied by 4 * fr * fc
Resize(grid, fr, fc) ==
    LET wide == [i \in 1..Len(grid) |-> Stretch(grid[i], fc)]
    IN  [y \in 1..(fr * Len(grid)) |-> [x \in 1..(fc * Len(grid[1])) |->
            Stretch([i \in 1..Len(grid) |-> wide[i][x]], fr)[y]]]

Failed(error) ==
    [raised |-> error, grid |-> <<>>, heatmap |-> [den |-> 0, cells |-> <<>>], pixels |-> <<>>]

\* utils.py:74-83: grid is the combined map, first what heatmap[0] is of it, fr
\* and fc the factors to the size of the image, nan_pixel what the cast of a
\* not-a-number to 8 bits gives
PostProcess(names, grid, first, fr, fc, nan_pixel) ==
    IF "F" \notin names THEN Failed("NameError")
    ELSE IF grid = <<>> THEN Failed("RuntimeError")
    ELSE LET rect == Relu(grid)
             top == MaxOf(Cells(rect))
             big == Resize(Relu(first), fr, fc)
         IN  [raised |-> "none",
              grid |-> grid,
              heatmap |-> [den |-> top, cells |-> rect],
              pixels |-> [y \in 1..Len(big) |-> [x \in 1..Len(big[y]) |->
                            255 - (IF top = 0 THEN nan_pixel
                                   ELSE (255 * big[y][x]) \div (top * 4 * fr * fc))]]]

\* utils.py:36-83, generate_gradcam2 once both passes are over
GenerateGradcam2(names, act, grad, nan_pixel) ==
    IF act.rank = 4 THEN
        IF "torch" \notin names THEN Failed("NameError")
        ELSE LET map == WeightedSpatial(act.data, PooledSpatial(grad.data))
             IN  PostProcess(names, map, [j \in 1..Len(map[1]) |-> <<map[1][j]>>],
                             Upscale, Upscale * Len(map), nan_pixel)
    ELSE IF act.rank = 3 THEN
        LET a == Tail(act.data)
            g == Tail(grad.data)
        IN  IF "torch" \notin names THEN Failed("NameError")
            ELSE LET scores == TokenScores(a, g)
                     grid_size == IntSqrt(Len(scores))
                 IN  IF grid_size * grid_size # Len(scores) THEN Failed("RuntimeError")
                     ELSE PostProcess(names, View(scores, grid_size), View(scores, grid_size),
                                      Upscale, Upscale, nan_pixel)
    ELSE Failed("ValueError")

\* detect_heat.py:71-79, generate_heatmap once both passes are over
GenerateHeatmap(names, act, grad) ==
    IF "torch" \notin names THEN Failed("NameError")
    ELSE IF act.rank # 4 THEN Failed("IndexError")
    ELSE LET map == WeightedSpatial(act.data, PooledSpatial(grad.data))
             big == Resize(Relu(map), Upscale, Upscale)
             low == MinOf(Cells(big))
             shifted == [y \in 1..Len(big) |-> [x \in 1..Len(big[y]) |-> big[y][x] - low]]
         IN  [raised |-> "none",
              grid |-> map,
              heatmap |-> [den |-> MaxOf(Cells(shifted)), cells |-> shifted],
              pixels |-> <<>>]

InitCam ==
    /\ pc = "tensors"
    /\ run = 1
    /\ resume_from = NoPath
    /\ epochs = 0
    /\ val_labels = {}
    /\ start_epoch = 0
    /\ epoch = 0
    /\ val_acc = 0
    /\ best_val_acc = 0
    /\ training_history = <<>>
    /\ best_models = <<>>
    /\ checkpoint = NoCheckpoint
    /\ models_dir = {}
    /\ old_models = {}
    /\ logs_dir = {}
    /\ training_log = <<>>
    /\ executed = <<>>
    /\ visualized = {}
    /\ offered = NoOffers
    /\ saliency = "none"
    /\ cam_input \in SpatialInputs(SpatialShapes) \cup TokenInputs(MaxTokens) \cup FlatInputs
    /\ cam_output = NoHeatmap
    /\ hooks = {}
    /\ probes = <<>>
    /\ passes = 0
    /\ calls = 0
    /\ paired = NoCapture
    /\ StepIdle

mainVars == <<run, resume_from, epochs, val_labels, start_epoch, epoch, val_acc,
              best_val_acc, training_history, best_models, checkpoint, models_dir,
              old_models, logs_dir, training_log, executed, visualized, offered, saliency,
              saving, interrupted>>

\* utils.py:4-83 on a layer whose passes give the tensors cam_input
CallGenerateGradcam2(nan_pixel) ==
    /\ pc = "tensors"
    /\ cam_output' = GenerateGradcam2(UtilsNames, cam_input.act, cam_input.grad, nan_pixel)
    /\ pc' = "generate_gradcam2"
    /\ UNCHANGED <<mainVars, cam_input, hooks, probes, passes, calls, paired>>

\* detect_heat.py:65-79 on a layer whose passes give the tensors cam_input
CallGenerateHeatmap ==
    /\ pc = "tensors"
    /\ cam_output' = GenerateHeatmap(DetectNames, cam_input.act, cam_input.grad)
    /\ pc' = "generate_heatmap"
    /\ UNCHANGED <<mainVars, cam_input, hooks, probes, passes, calls, paired>>

NextCam ==
    \/ \E nan_pixel \in NanCasts : CallGenerateGradcam2(nan_pixel)
    \/ CallGenerateHeatmap

SpecCam == InitCam /\ [][NextCam]_vars

(***************************************************************************)
(* The hooks of the saliency functions on one target layer of one model.   *)
(* A tensor is named by the number of the forward pass that produced it    *)
(* (a gradient by the forward pass its backward pass follows); 0 is None.  *)
(***************************************************************************)
MaxPasses == 3
MaxProbes == 2
PassOutcomes == {"ok", "forward_raises", "backward_raises"}

Hook(kind, owner) == [kind |-> kind, owner |-> owner]

\* detect_heat.py:56-57: a forward pass through the layer runs every forward hook
\* registered on it; the hook of a GradCAM object stores the output in the object
ObserveForward(objects, attached, cycle) ==
    [k \in 1..Len(objects) |->
        IF Hook("forward", <<"GradCAM", k>>) \in attached
        THEN [objects[k] EXCEPT !.activations = cycle] ELSE objects[k]]

\* faulty variant of ObserveBackward: the backward hooks store nothing
ObserveBackwardStoresNothing(objects, attached, cycle) == objects

\* detect_heat.py:59-60: the same for a backward pass and the backward hooks
ObserveBackward(objects, attached, cycle) ==
    [k \in 1..Len(objects) |->
        IF Hook("backward", <<"GradCAM", k>>) \in attached
        THEN [objects[k] EXCEPT !.gradients = cycle] ELSE objects[k]]

InitProbe ==
    /\ pc = "layer"
    /\ run = 1
    /\ resume_from = NoPath
    /\ epochs = 0
    /\ val_labels = {}
    /\ start_epoch = 0
    /\ epoch = 0
    /\ val_acc = 0
    /\ best_val_acc = 0
    /\ training_history = <<>>
    /\ best_models = <<>>
    /\ checkpoint = NoCheckpoint
    /\ models_dir = {}
    /\ old_models = {}
    /\ logs_dir = {}
    /\ training_log = <<>>
    /\ executed = <<>>
    /\ visualized = {}
    /\ offered = NoOffers
    /\ saliency = "none"
    /\ CamIdle
    /\ StepIdle

\* utils.py:10-37, generate_gradcam2 up to the tensors it combines.  A pass that
\* raises does so before it reaches the target layer, and the exception leaves
\* the function at once: there is no try around lines 26 and 32.
CaptureGradcam2(outcome) ==
    /\ pc = "layer"
    /\ passes < MaxPasses
    /\ LET owner == <<"generate_gradcam2", calls + 1>>
           attached == hooks \cup {Hook("forward", owner), Hook("backward", owner)}
           cycle == passes + 1
       IN  /\ calls' = calls + 1
           /\ passes' = cycle
           /\ IF outcome = "forward_raises" THEN
                 /\ hooks' = attached
                 /\ probes' = probes
                 /\ paired' = [by |-> owner, raised |-> "forward", activation |-> 0, gradient |-> 0]
              ELSE IF outcome = "backward_raises" THEN
                 /\ hooks' = attached \ {Hook("forward", owner)}
                 /\ probes' = ObserveForward(probes, attached, cycle)
                 /\ paired' = [by |-> owner, raised |-> "backward", activation |-> 0, gradient |-> 0]
              ELSE
                 /\ hooks' = attached \ {Hook("forward", owner), Hook("backward", owner)}
                 /\ probes' = ObserveBackward(ObserveForward(probes, attached, cycle),
                                              attached \ {Hook("forward", owner)}, cycle)
                 /\ paired' = [by |-> owner, raised |-> "none",
                               activation |-> cycle, gradient |-> cycle]
    /\ UNCHANGED <<pc, mainVars, cam_input, cam_output>>

\* detect_heat.py:48-63, GradCAM(model, target_layer): hook_layers registers both
\* hooks, keeps no handle and looks at nothing that is registered already
NewGradCAM ==
    /\ pc = "layer"
    /\ Len(probes) < MaxProbes
    /\ probes' = Append(probes, [activations |-> 0, gradients |-> 0])
    /\ hooks' = hooks \cup {Hook("forward", <<"GradCAM", Len(probes) + 1>>),
                            Hook("backward", <<"GradCAM", Len(probes) + 1>>)}
    /\ UNCHANGED <<pc, mainVars, cam_input, cam_output, passes, calls, paired>>

\* detect_heat.py:65-72, generate_heatmap of the k-th GradCAM object up to the
\* tensors it combines
CaptureHeatmap(k, outcome) ==
    /\ pc = "layer"
    /\ passes < MaxPasses
    /\ k \in 1..Len(probes)
    /\ LET cycle == passes + 1
           seen == ObserveForward(probes, hooks, cycle)
           done == ObserveBackward(seen, hooks, cycle)
       IN  /\ passes' = cycle
           /\ IF outcome = "forward_raises" THEN
                 /\ probes' = probes
                 /\ paired' = [by |-> <<"GradCAM", k>>, raised |-> "forward",
                               activation |-> 0, gradient |-> 0]
              ELSE IF outcome = "backward_raises" THEN
                 /\ probes' = seen
                 /\ paired' = [by |-> <<"GradCAM", k>>, raised |-> "backward",
                               activation |-> 0, gradient |-> 0]
              ELSE
                 /\ probes' = done
                 /\ paired' = [by |-> <<"GradCAM", k>>, raised |-> "none",
                               activation |-> done[k].activations,
                               gradient |-> done[k].gradients]
    /\ UNCHANGED <<pc, mainVars, cam_input, cam_output, hooks, calls>>

\* the model is run once more for something else: the forward hooks still
\* registered on the layer run (detect_heat.py:56-57, utils.py:14-15)
LayerForward ==
    /\ pc = "layer"
    /\ passes < MaxPasses
    /\ passes' = passes + 1
    /\ probes' = ObserveForward(probes, hooks, passes + 1)
    /\ UNCHANGED <<pc, mainVars, cam_input, cam_output, hooks, calls, paired>>

NextProbe ==
    \/ \E outcome \in PassOutcomes : CaptureGradcam2(outcome)
    \/ NewGradCAM
    \/ \E k \in 1..MaxProbes, outcome \in PassOutcomes : CaptureHeatmap(k, outcome)
    \/ LayerForward

SpecProbe == InitProbe /\ [][NextProbe]_vars

(***************************************************************************)
(* Properties.                                                             *)
(***************************************************************************)
\* what a family retains: the entries of best_models, the epoch-named files of logs
Retained(family) ==
    IF family = "checkpoint"
    THEN {best_models[i][2] : i \in 1..Len(best_models)}
    ELSE FamilyFiles(logs_dir, family)

DistinctScores(off) ==
    \A i, j \in 1..Len(off) : i # j => off[i].score # off[j].score

\* the names of the k highest-scoring offers
HighestOffers(off, k) ==
    {off[i].name : i \in {i \in 1..Len(off) :
        Cardinality({j \in 1..Len(off) : off[j].score > off[i].score}) < k}}

\* C1: in every family, after any sequence of offers with pairwise distinct scores,
\* the retained set is exactly the 3 highest-scoring candidates offered so far
\* (all of them when fewer than 3 were offered).
C1_RetainsThreeHighest ==
    \A family \in Families :
        DistinctScores(offered[family]) =>
            Retained(family) = HighestOffers(offered[family], 3)

\* C2: after n offers to one retention set the number of retained entries is min(3, n).
C2_RetainedCount ==
    \A family \in Families :
        Cardinality(Retained(family)) = Min(3, Len(offered[family]))

C2_Witness ==
    /\ pc = "confusion_matrix"
    /\ Len(offered["confusion_matrix"]) = 4
    /\ Cardinality(FamilyFiles(logs_dir, "confusion_matrix")) = 3

\* C3: at the end of every epoch the checkpoint files of the run that exist on
\* storage are exactly the (at most 3) entries of best_models: a checkpoint
\* dropped from best_models has had its .pth file deleted.
C3_DroppedCheckpointsDeleted ==
    pc \in {"train", "done"} =>
        {f.path : f \in models_dir} = {best_models[i][2] : i \in 1..Len(best_models)}

\* the score two candidates are compared by: the accuracy for checkpoints, the
\* accuracy formatted to 4 decimals for image files
ComparedScore(family, o) ==
    IF family = "checkpoint" THEN o.score
    ELSE (2 * o.score + Resolution) \div (2 * Resolution)

\* C4: of two candidates of one family with equal scores, the later-offered one is
\* never retained while the earlier-offered one is evicted.
C4_EarlierWinsTies ==
    \A family \in Families :
        \A i, j \in 1..Len(offered[family]) :
            (/\ i < j
             /\ ComparedScore(family, offered[family][i]) = ComparedScore(family, offered[family][j])
             /\ offered[family][j].name \in Retained(family))
            => offered[family][i].name \in Retained(family)

\* C5: in every epoch a checkpoint is written and offered to best_models exactly
\* when the validation accuracy is strictly greater than best_val_acc; then
\* best_val_acc becomes that accuracy, otherwise best_val_acc, best_models and the
\* files stay as they are; best_val_acc never decreases during a run.
C5_CheckpointIffImproved ==
    [][/\ pc = "ckpt" =>
            IF val_acc > best_val_acc
            THEN /\ best_val_acc' = val_acc
                 /\ \E f \in models_dir' \ models_dir : f.content.epoch = epoch
                 /\ \E i \in 1..Len(best_models') : best_models'[i][1] = val_acc
                 /\ Len(offered'["checkpoint"]) = Len(offered["checkpoint"]) + 1
            ELSE /\ best_val_acc' = best_val_acc
                 /\ models_dir' = models_dir
                 /\ best_models' = best_models
                 /\ offered' = offered
       /\ (pc \notin {"start", "done", "aborted"} /\ pc' # "start")
            => best_val_acc' >= best_val_acc
      ]_vars

\* an epoch whose accuracy equals the best one so far has ended without a save
C5_Witness ==
    /\ pc = "train"
    /\ Len(training_history) = 2
    /\ training_history[1] = training_history[2]
    /\ training_history[1] > 0
    /\ Cardinality(models_dir) = 1
    /\ best_val_acc = training_history[1]

\* the launch resumed from a checkpoint that was there
Resumed == resume_from # NoPath /\ PathExists(old_models, resume_from)
Loaded == (CHOOSE f \in old_models : f.path = resume_from).content

\* C6: resuming from a checkpoint with epoch e, best_val_acc b and history h makes
\* e+1 the first executed epoch, executes no epoch <= e, and keeps best_val_acc = b
\* and the history = h until the first iteration appends its metrics.
C6_ResumeContinuesAfterCheckpoint ==
    Resumed =>
        /\ start_epoch = Loaded.epoch + 1
        /\ \A i \in 1..Len(executed) : executed[i] > Loaded.epoch
        /\ executed # <<>> => executed[1] = Loaded.epoch + 1
        /\ (Len(executed) <= 1 /\ pc \in {"train", "validate", "append", "done"} /\ epoch = start_epoch)
            => /\ best_val_acc = Loaded.best_val_acc
               /\ training_history = Loaded.training_history

C6_Witness ==
    /\ Resumed
    /\ Loaded.epoch = 1
    /\ Loaded.best_val_acc > 0
    /\ pc = "append"
    /\ executed = <<2>>

\* C7: the TrainingState restored from a checkpoint right after main saved it is
\* the TrainingState of the running loop at the moment after the save: same epoch,
\* same best_val_acc, same history.
C7_SaveRestoreRoundTrip ==
    [][(pc = "ckpt" /\ models_dir' # models_dir) =>
         \E f \in models_dir' \ models_dir :
            /\ f.content.epoch = epoch
            /\ f.content.best_val_acc = best_val_acc'
            /\ f.content.training_history = training_history'
      ]_vars

\* the visualization block of epoch e has been passed, or entered and left by an error
VizDecided(e) == e < epoch \/ pc \in {"roc", "saliency", "log", "ckpt", "aborted"}

\* C8: the visualization step runs in exactly the executed epochs whose 1-based
\* number is even, in fresh and in resumed runs.
C8_VisualizeOnEvenEpochs ==
    /\ visualized \subseteq Range(executed)
    /\ \A e \in Range(executed) :
          IF VizDecided(e) THEN (e \in visualized <=> (e + 1) % 2 = 0)
          ELSE e \notin visualized

\* a run resumed at an even epoch index has visualized its second epoch, not its first
C8_Witness ==
    /\ Resumed
    /\ start_epoch = 2
    /\ pc = "done"
    /\ visualized = {3}
    /\ executed = <<2, 3>>

ExpectedEpochs ==
    [i \in 1..(IF epochs > start_epoch THEN epochs - start_epoch ELSE 0) |-> start_epoch + i - 1]

PhaseRank ==
    CASE pc = "train" -> 8
      [] pc = "validate" -> 7
      [] pc = "append" -> 6
      [] pc = "viz" -> 5
      [] pc = "roc" -> 4
      [] pc = "saliency" -> 3
      [] pc = "log" -> 2
      [] pc = "ckpt" -> 1
      [] OTHER -> 0

\* what is left of the loop: full iterations, then phases of the current one
LoopRank == (IF epochs > epoch THEN epochs - epoch ELSE 0) * 9 + PhaseRank

\* C9: if no step raises, the loop ends after exactly max(0, epochs - start_epoch)
\* epochs, start_epoch..epochs-1 each executed once in increasing order, whatever the
\* validation metrics are; every step of the loop brings its end nearer.
C9_LoopRunsAllEpochs ==
    [][/\ pc' = "done" => executed' = ExpectedEpochs'
       /\ (pc \in {"train", "validate", "append", "viz", "roc", "saliency", "log", "ckpt"} /\ pc' # "aborted")
            => (LoopRank' < LoopRank /\ executed' \in {executed, Append(executed, epoch)})
      ]_vars

\* a fresh run of four epochs has ended although the accuracy never improved after the first
C9_Witness ==
    /\ pc = "done"
    /\ resume_from = NoPath
    /\ epochs = 4
    /\ executed = <<0, 1, 2, 3>>
    /\ Cardinality(models_dir) = 1

\* C10: resuming from a path with no file behind it aborts the run before any epoch
\* executes; no checkpoint, log line or visualization artifact is written.
C10_MissingCheckpointAborts ==
    (resume_from # NoPath /\ ~PathExists(old_models, resume_from)) =>
        /\ pc = "aborted"
        /\ executed = <<>>
        /\ training_history = <<>>
        /\ models_dir = {}
        /\ training_log = <<>>
        /\ logs_dir = {}
        /\ visualized = {}

\* the second launch named a missing file although a checkpoint of the first was kept
C10_Witness ==
    /\ pc = "aborted"
    /\ run = 2
    /\ resume_from = MissingPath
    /\ old_models # {}

\* C11: when the validation labels contain one distinct class only, the
\* save_roc_curve call of main returns without raising, writes no ROC file and
\* deletes none, and the iteration goes on with the rest of the epoch.
C11_SingleClassRocSkipped ==
    [][(pc = "roc" /\ Cardinality(val_labels) = 1) =>
          /\ pc' = "saliency"
          /\ logs_dir' = logs_dir
      ]_vars

CamCalled == pc \in {"generate_gradcam2", "generate_heatmap"}

\* the importance-weighted map of cam_input before it is rectified: the feature
\* map of a rank-4 layer, the patch grid of a rank-3 layer with a square number
\* of patches
CombinedMap ==
    IF cam_input.act.rank = 4
    THEN WeightedSpatial(cam_input.act.data, PooledSpatial(cam_input.grad.data))
    ELSE IF /\ cam_input.act.rank = 3
            /\ pc = "generate_gradcam2"
            /\ Len(cam_input.act.data) > 1
            /\ IntSqrt(Len(cam_input.act.data) - 1) * IntSqrt(Len(cam_input.act.data) - 1)
                  = Len(cam_input.act.data) - 1
    THEN View(TokenScores(Tail(cam_input.act.data), Tail(cam_input.grad.data)),
              IntSqrt(Len(cam_input.act.data) - 1))
    ELSE <<>>

RectifiedMax == MaxOf(Cells(Relu(CombinedMap)))

\* C13: when the rectified importance-weighted map has maximum zero, the saliency
\* function guards the division by the maximum and returns a heatmap that is zero
\* everywhere; it produces no not-a-number value and raises nothing.
C13_ZeroMaximumGuarded ==
    (CamCalled /\ CombinedMap # <<>> /\ RectifiedMax = 0) =>
        /\ cam_output.raised = "none"
        /\ cam_output.heatmap.den # 0
        /\ \A v \in Cells(cam_output.heatmap.cells) : v = 0

\* C14: on a rank-3 activation of T tokens generate_gradcam2 drops token 0 of
\* activations and gradients; when T-1 = g*g it produces the g-by-g grid of the
\* T-1 token scores, row by row; otherwise it raises and produces no grid.
C14_TokenGridOrError ==
    (pc = "generate_gradcam2" /\ cam_input.act.rank = 3 /\ Len(cam_input.act.data) > 1) =>
        LET a == cam_input.act.data
            g == cam_input.grad.data
            n == Len(a) - 1
            side == IntSqrt(n)
            score(t) == SumTo([d \in 1..Len(a[t]) |->
                                a[t][d] * SumTo([u \in 1..n |-> g[u + 1][d]], n)], Len(a[t]))
        IN  IF side * side = n
            THEN /\ cam_output.raised = "none"
                 /\ cam_output.grid = [i \in 1..side |-> [j \in 1..side |->
                                          score((i - 1) * side + j + 1)]]
            ELSE /\ cam_output.raised # "none"
                 /\ cam_output.grid = <<>>

\* C17: on a rank-4 activation whose rectified map has a nonzero maximum every
\* value of the normalized heatmap lies in [0, 1] and the largest is exactly 1;
\* the pixels generate_gradcam2 returns after the 8-bit scaling and the inversion
\* lie in 0..255.
C17_SpatialHeatmapInUnitRange ==
    (CamCalled /\ cam_input.act.rank = 4 /\ RectifiedMax > 0) =>
        /\ cam_output.raised = "none"
        /\ cam_output.heatmap.den > 0
        /\ \A v \in Cells(cam_output.heatmap.cells) : 0 <= v /\ v <= cam_output.heatmap.den
        /\ \E v \in Cells(cam_output.heatmap.cells) : v = cam_output.heatmap.den
        /\ pc = "generate_gradcam2" =>
              /\ cam_output.pixels # <<>>
              /\ \A p \in Cells(cam_output.pixels) : 0 <= p /\ p <= 255

\* C15: once a capture cycle has ended, by returning or by a forward or backward
\* pass that raised, no forward or backward hook of that capture is attached to the
\* target layer.
C15_NoHookAfterCapture ==
    paired.by # NoCapture.by => \A h \in hooks : h.owner # paired.by

\* C16: at most one capture is attached to the target layer at any time: a second
\* set of hooks is never registered next to one that is still attached.
C16_OneCapturePerLayer ==
    /\ Cardinality({h.owner : h \in hooks}) <= 1
    /\ \A kind \in {"forward", "backward"} : Cardinality({h \in hooks : h.kind = kind}) <= 1

\* the entries training_history had when the loop started
HistoryAtStart == IF Resumed THEN Len(Loaded.training_history) ELSE 0

\* how many of the executed epochs have appended their metrics, have written
\* their log line
AppendedEpochs == Len(executed) - (IF pc \in {"validate", "append"} THEN 1 ELSE 0)
LoggedEpochs ==
    Len(executed)
    - (IF pc \in {"validate", "append", "viz", "roc", "saliency", "log"}
          \/ (pc = "aborted" /\ executed # <<>>)
       THEN 1 ELSE 0)

\* C18: within an executed epoch the phases come in the order train, validate,
\* append the metrics, visualize (cadence epochs only), append the log line, decide
\* about the checkpoint, each at most once; the checkpoint decision of an epoch
\* precedes the training of the next.
C18_PhasesInOrder ==
    /\ \A i, j \in 1..Len(executed) : i < j => executed[i] < executed[j]
    /\ Len(training_history) = HistoryAtStart + AppendedEpochs
    /\ training_log = [i \in 1..LoggedEpochs |-> executed[i] + 1]
    /\ \A e \in visualized :
          /\ (e + 1) % 2 = 0
          /\ \E i \in 1..AppendedEpochs : executed[i] = e
    /\ \A i \in 1..LoggedEpochs : (executed[i] + 1) % 2 = 0 => executed[i] \in visualized
    /\ \A f \in models_dir :
          /\ f.content.epoch + 1 \in Range(training_log)
          /\ pc \in {"train", "validate", "append", "viz", "roc", "saliency", "log", "ckpt"}
                => f.content.epoch < epoch
    /\ \A i \in 1..Len(executed) :
          executed[i] < epoch => training_history[HistoryAtStart + i] <= best_val_acc

\* a fresh run of four epochs has ended: both cadence epochs were visualized, the
\* four log lines are written and two epochs improved on the best accuracy
C18_Witness ==
    /\ pc = "done"
    /\ resume_from = NoPath
    /\ executed = <<0, 1, 2, 3>>
    /\ visualized = {1, 3}
    /\ training_log = <<1, 2, 3, 4>>
    /\ Cardinality(models_dir) = 2

\* C19: the three families are retained independently: an offer to one family
\* leaves the files and the retained entries of the other two as they are, also
\* where confusion matrices and ROC curves share the logs directory.
C19_FamiliesIndependent ==
    [][/\ pc = "confusion_matrix" =>
             /\ {f \in logs_dir' : f.family # "confusion_matrix"}
                   = {f \in logs_dir : f.family # "confusion_matrix"}
             /\ models_dir' = models_dir /\ best_models' = best_models
       /\ pc = "roc_curve" =>
             /\ {f \in logs_dir' : f.family # "roc_curve"}
                   = {f \in logs_dir : f.family # "roc_curve"}
             /\ models_dir' = models_dir /\ best_models' = best_models
       /\ pc = "checkpoint" => logs_dir' = logs_dir
      ]_vars

\* four ROC curves were offered next to a confusion matrix with a lower score than
\* any of them: one ROC curve was evicted, the confusion matrix is still there
C19_Witness ==
    /\ pc = "roc_curve"
    /\ Len(offered["roc_curve"]) = 4
    /\ \A i \in 1..4 : offered["roc_curve"][i].score > Resolution
    /\ Cardinality({f \in logs_dir : f.family = "roc_curve"}) = 3
    /\ ForeignFile("roc_curve") \in logs_dir

\* C20: when a file selected for eviction is already gone as the retention code
\* comes to delete it, nothing is raised, the other evictions are carried out and
\* the offer ends like any other.
C20_VanishedFileIsNoOp ==
    [][(pc \in Families) =>
          /\ pc' = pc
          /\ \A family \in {"confusion_matrix", "roc_curve"} :
                Cardinality({f \in logs_dir' : f.family = family}) <= 3
      ]_vars

\* the epoch-named files of the family that is driven
Stored == FamilyFiles(logs_dir, pc)

\* the k-th file of saved_files is at least as high-scoring as every later one
KeptAreHighest(files) ==
    \A i \in 1..Min(TopK, Len(files)) : \A j \in (TopK + 1)..Len(files) :
        FileScore(files[i]) >= FileScore(files[j])

\* what a call that returns leaves behind, and that files go away in the removal
\* loop of a call only
OfferReconciles ==
    /\ (saving.at = "remove" /\ saving'.at = "idle" /\ interrupted' = 0) =>
          /\ Cardinality(Stored') <= TopK
          /\ Stored' = Range(Top(saving.saved_files, TopK))
          /\ KeptAreHighest(saving.saved_files)
    /\ Stored' # Stored =>
          \/ saving.at = "idle" /\ saving'.at = "listdir" /\ Stored \subseteq Stored'
          \/ saving.at = "remove" /\ saving'.at = "remove"
                /\ Stored' = Stored \ {saving.saved_files[TopK + saving.removed + 1]}

\* C21: an image family has at most K+1 = 4 epoch-named files on storage at any
\* instant; after a call cut short between writing and evicting, the next call
\* that returns leaves at most 3 files, the highest-scoring ones, and nothing
\* else removes files in between.
C21_AtMostFourStored ==
    [][/\ Cardinality(Stored') <= TopK + 1
       /\ OfferReconciles
      ]_vars

\* C21 as it holds: a call adds one file to what it finds; with no call cut short
\* since the last one that returned at most 4 files are stored, and every call
\* cut short can leave one more; the next call that returns leaves at most 3
\* files, the highest-scoring ones, and nothing else removes files in between.
C21_OneMorePerInterruptedCall ==
    [][/\ Cardinality(Stored') <= TopK + interrupted' + (IF saving'.at = "idle" THEN 0 ELSE 1)
       /\ (saving'.at = "idle" /\ interrupted' = 0) => Cardinality(Stored') <= TopK
       /\ OfferReconciles
      ]_vars

\* two calls in a row were cut short with four and five files stored; the next
\* call has removed the two lowest-scoring of its five files and is about to return
C21_Witness ==
    /\ pc = "confusion_matrix"
    /\ interrupted = 2
    /\ saving.at = "remove"
    /\ Len(saving.saved_files) = TopK + 2
    /\ saving.removed = 2
    /\ Cardinality(Stored) = TopK
    /\ FileScore(saving.saved_files[1]) > FileScore(saving.saved_files[TopK + 2])

\* C22: every (activation, gradient) pair combined into a heatmap comes from one
\* forward/backward cycle, the one the capturing call has just made: the gradient
\* is that of the backward pass following the forward pass of the activation, also
\* when one GradCAM object captures several times and when generate_gradcam2 is
\* called again on the layer.
C22_PairFromOneCycle ==
    [][(paired' # paired /\ paired'.raised = "none") =>
          /\ passes' = passes + 1
          /\ paired'.activation = passes'
          /\ paired'.gradient = passes'
      ]_vars

\* the third pass through the layer is a capture of the first GradCAM object,
\* made after a generate_gradcam2 call whose forward pass raised and left its
\* hooks on the layer; the object holds the tensors of that third pass
C22_Witness ==
    /\ passes = 3
    /\ calls = 1
    /\ Hook("forward", <<"generate_gradcam2", 1>>) \in hooks
    /\ paired = [by |-> <<"GradCAM", 1>>, raised |-> "none", activation |-> 3, gradient |-> 3]
    /\ probes[1] = [activations |-> 3, gradients |-> 3]

\* the highest validation accuracy recorded in a history, 0 for an empty one
HighestRecorded(history) == MaxOf(Range(history) \cup {0})

\* C23: at the start of every epoch, in fresh runs and in runs resumed from a
\* checkpoint main wrote, best_val_acc is the highest validation accuracy recorded
\* in the history (0 for an empty one); so a checkpoint is written only for an
\* epoch whose validation accuracy exceeds every accuracy recorded before it.
C23_BestIsHighestRecorded ==
    [][/\ pc' = "train" => best_val_acc' = HighestRecorded(training_history')
       /\ (pc = "ckpt" /\ models_dir' # models_dir) =>
             \A i \in 1..(Len(training_history) - 1) : val_acc > training_history[i]
      ]_vars

\* C24: within one run of main the scores of successive checkpoint saves are
\* strictly increasing; best_models never has two entries of equal score, holds
\* the min(3, n) most recently saved checkpoints, and the entry dropped when a
\* fourth checkpoint arrives is the oldest one.
C24_KeepsMostRecentSaves ==
    LET saves == offered["checkpoint"]
        n == Len(saves)
    IN  /\ \A i, j \in 1..n : i < j => saves[i].score < saves[j].score
        /\ \A i, j \in 1..Len(best_models) : i # j => best_models[i][1] # best_models[j][1]
        /\ Len(best_models) = Min(3, n)
        /\ \A k \in 1..Min(3, n) :
              best_models[k] = <<saves[n + 1 - k].score, saves[n + 1 - k].name>>
        /\ \A i \in 1..(n - 3) : \A k \in 1..Len(best_models) : best_models[k][2] # saves[i].name

\* a fresh run of four epochs has saved a checkpoint in each: the first of them,
\* the oldest, is no longer in best_models
C24_Witness ==
    /\ resume_from = NoPath
    /\ pc = "done"
    /\ Len(offered["checkpoint"]) = 4
    /\ Len(best_models) = 3
    /\ best_models[1][1] = MaxAcc
    /\ best_models[3][2] = offered["checkpoint"][2].name

\* the labels fall on both sides of the binarization of plotting.py:108
BothSides(labels) == (\E l \in labels : l <= 1) /\ (\E l \in labels : l > 1)

\* C25: save_roc_curve decides on the binarized labels (a label above 1 counts as
\* 1, any other as 0): it writes the ROC file of the epoch if and only if the
\* validation labels hold a label <= 1 and a label > 1; labels of several classes
\* on one side (only 0 and 1, say) are skipped and no file is written.
C25_RocWrittenIffBothSides ==
    [][pc = "roc" =>
          IF BothSides(val_labels)
          THEN ImageName("roc_curve", epoch, val_acc) \in logs_dir'
          ELSE logs_dir' = logs_dir
      ]_vars

====
